---- MODULE Spec2Model ----
(***************************************************************************)
(* Model of the chat server of server/src/index.ts: the upgrade handshake  *)
(* (verifyClient), the live-session store written by /login and /logout,   *)
(* the per-connection handlers (connection, message, close), the presence  *)
(* broadcast and gracefulShutdown.  One action is one run-to-completion    *)
(* callback of the Node.js event loop.                                     *)
(***************************************************************************)
EXTENDS Integers, Sequences, FiniteSets, TLC

\* ------------------------------------------------------------------ bounds
MaxConns == 2        \* upgrade requests that reach the store query, per run
MaxHandshakes == 1   \* the same, per run of SpecAuth and of SpecRate
MaxTokens == 2       \* successful logins per run
MaxFrames == 1       \* frames per connection and window, except in SpecRate
MaxSignals == 2      \* termination signals per run

\* ------------------------------------------------------- program constants
rateLimit == 20
CloseCodePolicy == 1008
MaxMessageLen == 250

\* ------------------------------------------------------------------ inputs
NoOrigin == "undefined"
allowedOrigins ==
    { "http://127.0.0.1:5500", "http://localhost:8080", "http://localhost:5500",
      "ws://localhost:8080", "https://websocket-chat-client.onrender.com",
      "wss://websocket-chat-server.onrender.com",
      "https://websocket-chat-server-ptfw.onrender.com",
      "wss://websocket-chat-server-ptfw.onrender.com",
      "https://websocket-chat-client-ptfw.onrender.com",
      "wss://websocket-chat-client-ptfw.onrender.com" }
Origins == { "http://localhost:5500", "http://evil.example", NoOrigin }

Users == { "alice", "bob" }
NoToken == -1        \* the URL carries no token parameter
ForgedToken == 0     \* a token the server's secret did not sign
Tokens == 1 .. MaxTokens
NoUser == "undefined"

ConnIds == 1 .. MaxConns
Times == { "10:00:00" }
\* a text of n characters
Filled(n) == [i \in 1 .. n |-> "a"]
Texts == { <<>>, <<"h", "<">> }
BoundaryTexts == { <<>>, Filled(1), Filled(MaxMessageLen), Filled(MaxMessageLen + 1) }
\* a frame that JSON.parse rejects, a frame of another type, and chat frames
Frames ==
    { [wf |-> FALSE, type |-> "", message |-> <<>>, username |-> NoUser],
      [wf |-> TRUE, type |-> "typing", message |-> <<"h", "<">>, username |-> NoUser] }
    \cup { [wf |-> TRUE, type |-> "chat", message |-> t, username |-> NoUser] :
             t \in Texts }
BoundaryFrames ==
    { [wf |-> TRUE, type |-> "chat", message |-> t, username |-> NoUser] :
        t \in BoundaryTexts }
\* chat frames whose object carries a username property of its own
IdentityFrames ==
    { [wf |-> TRUE, type |-> "chat", message |-> <<"h", "<">>, username |-> u] :
        u \in Users \cup { NoUser } }

VARIABLES
    secret,          \* process.env.JWT_SECRET is defined
    active_tokens,   \* rows <<token, username>> of table active_tokens
    tokenOwner,      \* username signed into each token issued by /login
    expired,         \* issued tokens whose exp has passed
    revoked,         \* history: tokens deleted by /logout
    nextId,          \* number of upgrade requests received so far, plus one
    conn,            \* per upgrade request: handshake and socket state
    clients,         \* wss.clients in insertion order
    presenceTimers,  \* closed connections whose setTimeout(100) is pending
    broken,          \* open sockets whose transport has failed: a send to them fails
    broadcasts,      \* the broadcasts made by the last step, in order
    rejected,        \* the request the last step rejected before any store query
    received,        \* the frame the last step handled, and the socket it came on
    listening,       \* the HTTP server accepts connections
    closeCalls,      \* number of server.close() invocations
    closeCbs,        \* callbacks registered by server.close(): TRUE = with err
    wssCloseCalls,   \* number of wss.close() invocations
    sentryCalls,     \* number of Sentry.close() invocations
    sentryPending,   \* Sentry.close() promises not yet settled
    flushFailures,   \* number of Sentry.close() promises that rejected
    poolCbs,         \* pending pool.end() callbacks: <<exit code, released>>
    poolEndCalls,    \* number of pool.end() invocations
    poolReleased,    \* "no", "ok" or "failed": outcome of the pool release
    exited,          \* process.exit() was called
    exitCode,
    chatSeq,         \* history: chat messages broadcast so far for each sender
    inbox,           \* history: per socket, the <<sender, number>> of the chat
                     \* messages sent to it, in the order of the send() calls
    closeErrors      \* history: server.close() callbacks that were run with an error

authVars == <<secret, active_tokens, tokenOwner, expired, revoked>>
connVars == <<nextId, conn, clients, presenceTimers, broken>>
outVars == <<broadcasts, rejected, received>>
shutVars == <<listening, closeCalls, closeCbs, wssCloseCalls, sentryCalls,
              sentryPending, flushFailures, poolCbs, poolEndCalls, poolReleased,
              exited, exitCode>>
histVars == <<chatSeq, inbox, closeErrors>>
vars == <<authVars, connVars, outVars, shutVars, histVars>>

NoConn ==
    [phase |-> "idle", origin |-> NoOrigin, token |-> NoToken, rows |-> <<>>,
     queryError |-> FALSE, doneCalls |-> 0, log |-> "",
     afterStop |-> FALSE, drained |-> FALSE, lookupRevoked |-> FALSE,
     username |-> NoUser, messageCounter |-> 0, timer |-> FALSE,
     closeCode |-> 0, window |-> "", pairSnapshots |-> 0, snapshot |-> <<>>]

NoRequest == [origin |-> NoOrigin, url |-> FALSE, token |-> NoToken, log |-> "",
              doneCalls |-> 0]

NoFrame == [conn |-> 0, wf |-> FALSE, type |-> "", message |-> <<>>,
            phase |-> "", limited |-> FALSE, parsed |-> FALSE, claimed |-> NoUser]

\* a step that sends nothing, rejects nothing and handles no frame
Quiet == broadcasts' = <<>> /\ rejected' = NoRequest /\ received' = NoFrame

Init ==
    /\ secret \in BOOLEAN
    /\ active_tokens = {}
    /\ tokenOwner = [t \in Tokens |-> NoUser]
    /\ expired = {}
    /\ revoked = {}
    /\ nextId = 1
    /\ conn = [c \in ConnIds |-> NoConn]
    /\ clients = <<>>
    /\ presenceTimers = {}
    /\ broken = {}
    /\ broadcasts = <<>>
    /\ rejected = NoRequest
    /\ received = NoFrame
    /\ listening = TRUE
    /\ closeCalls = 0
    /\ closeCbs = <<>>
    /\ wssCloseCalls = 0
    /\ sentryCalls = 0
    /\ sentryPending = 0
    /\ flushFailures = 0
    /\ poolCbs = <<>>
    /\ poolEndCalls = 0
    /\ poolReleased = "no"
    /\ exited = FALSE
    /\ exitCode = 0
    /\ chatSeq = [c \in ConnIds |-> 0]
    /\ inbox = [c \in ConnIds |-> <<>>]
    /\ closeErrors = 0

\* ------------------------------------------------- live-session store (HTTP)
IssuedTokens == { t \in Tokens : tokenOwner[t] # NoUser }

\* POST /login, success path: jwt.sign stamps the issue time into the token, so
\* every login yields a credential that was not issued before.
Login(u) ==
    /\ ~exited /\ listening /\ secret
    /\ \E t \in Tokens :
          /\ tokenOwner[t] = NoUser
          /\ \A s \in Tokens : s < t => tokenOwner[s] # NoUser
          /\ tokenOwner' = [tokenOwner EXCEPT ![t] = u]
          /\ active_tokens' = active_tokens \cup { <<t, u>> }
    /\ Quiet
    /\ UNCHANGED <<histVars, secret, expired, revoked, connVars, shutVars>>

DeleteNothing(rows, t) == rows

\* POST /logout: DELETE FROM active_tokens WHERE token = $1
DeleteToken(rows, t) == { r \in rows : r[1] # t }

SocketsClosedByLogout(cn, t) ==
    [c \in DOMAIN cn |->
       IF cn[c].token = t /\ cn[c].phase = "open"
       THEN [cn[c] EXCEPT !.phase = "closing"] ELSE cn[c]]

\* what /logout does to the sockets admitted with the token: the route
\* touches the table only
SocketsAfterLogout(cn, t) == cn

Logout(t) ==
    /\ ~exited /\ listening
    /\ \E r \in active_tokens : r[1] = t
    /\ active_tokens' = DeleteToken(active_tokens, t)
    /\ revoked' = revoked \cup { t }
    /\ conn' = SocketsAfterLogout(conn, t)
    /\ Quiet
    /\ UNCHANGED <<histVars, secret, tokenOwner, expired, nextId, clients,
                   presenceTimers, broken, shutVars>>

\* the token's one-hour validity ends: tokens expire in the order of issue
Expire(t) ==
    /\ ~exited
    /\ t \in IssuedTokens /\ t \notin expired
    /\ \A s \in Tokens : s < t => s \in expired
    /\ expired' = expired \cup { t }
    /\ Quiet
    /\ UNCHANGED <<histVars, secret, active_tokens, tokenOwner, revoked, connVars, shutVars>>

\* ------------------------------------------------------- wire serialization
\* sanitize(): each markup-significant character becomes its entity
EscapeChar(ch) ==
    CASE ch = "&" -> "&amp;"
      [] ch = "<" -> "&lt;"
      [] ch = ">" -> "&gt;"
      [] ch = "\"" -> "&quot;"
      [] ch = "'" -> "&#39;"
      [] OTHER -> ch

sanitize(str) == [i \in 1 .. Len(str) |-> EscapeChar(str[i])]

isValidMessageBelow(message) == Len(message) > 0 /\ Len(message) < MaxMessageLen

\* isValidMessage(): message.length > 0 && message.length <= 250
isValidMessage(message) == Len(message) > 0 /\ Len(message) <= MaxMessageLen

\* JSON.stringify of the three outbound objects: the keys and values in
\* property order
StringifyChat(username, message, timestamp) ==
    <<"username", username, "message", message, "timestamp", timestamp>>

StringifyAnnouncement(username) ==
    <<"type", "announcement", "message",
      <<IF username = NoUser THEN "unknown" ELSE username,
        " has joined the chat room">> >>

StringifyUserList(users) == <<"type", "userList", "users", users>>

\* ------------------------------------------------------- registry, presence
InSeq(x, s) == \E i \in 1 .. Len(s) : s[i] = x

RemoveFrom(s, x) == SelectSeq(s, LAMBDA y : y # x)

IsOpen(cn, c) == cn[c].phase = "open"

OpenSet(cl, cn) == { c \in ConnIds : InSeq(c, cl) /\ IsOpen(cn, c) }

IncludesNever(users, username) == FALSE

\* users.includes(client.username)
Includes(users, username) == InSeq(username, users)

\* getConnectedUsers(): usernames of the OPEN clients, first occurrence only
RECURSIVE CollectUsers(_, _, _)
CollectUsers(cl, cn, users) ==
    IF cl = <<>> THEN users
    ELSE LET client == Head(cl)
             seen == Includes(users, cn[client].username)
             take == IsOpen(cn, client) /\ cn[client].username # NoUser /\ ~seen
         IN  CollectUsers(Tail(cl), cn,
                          IF take THEN Append(users, cn[client].username) ELSE users)

getConnectedUsers(cl, cn) == CollectUsers(cl, cn, <<>>)

AttemptedStale(cl, to) == { c \in to : InSeq(c, cl) /\ c # cl[Len(cl)] }

\* the clients of wss.clients for which the body of a forEach calls send()
Attempted(cl, to) == { c \in to : InSeq(c, cl) }

DeliveredUntilFailure(cl, to, bad) ==
    { c \in Attempted(cl, to) :
        \A i \in 1 .. Len(cl) :
            cl[i] \in Attempted(cl, to) \cap bad => \E j \in 1 .. i - 1 : cl[j] = c }

\* the clients a forEach delivers to when the sends to the clients of `bad'
\* fail: client.send() returns, its failure goes to a callback the call does
\* not pass, and the loop goes on to the next client
Delivered(cl, to, bad) == Attempted(cl, to) \ bad

\* one forEach over wss.clients: `to' is the set of clients the loop body
\* sends to, payload[c] what it passes to client.send() for client c
ForEachSend(cl, to, payload) ==
    [c \in ConnIds |-> IF c \in Delivered(cl, to, broken) THEN <<payload[c]>> ELSE <<>>]

Event(kind, from, cl, cn, to, payload) ==
    [kind |-> kind, from |-> from, open |-> OpenSet(cl, cn),
     to |-> Attempted(cl, to), failed |-> Attempted(cl, to) \cap broken,
     sent |-> ForEachSend(cl, to, payload),
     stringifyCalls |-> Cardinality(Attempted(cl, to))]

\* the payload client.send() gets for one recipient of the presence snapshot
UserListPayload(client, users) == StringifyUserList(users)

\* broadcastUserlist()
broadcastUserlist(cl, cn) ==
    LET connectedUsers == getConnectedUsers(cl, cn)
    IN  Event("userList", 0, cl, cn, { c \in ConnIds : IsOpen(cn, c) },
              [c \in ConnIds |-> UserListPayload(c, connectedUsers)])

\* ------------------------------------------------------------ verifyClient
OriginAllowedOrAbsent(origin) == origin \in allowedOrigins \/ origin = NoOrigin

\* allowedOrigins.includes(origin)
OriginAllowed(origin) == origin \in allowedOrigins

JwtVerifySignatureOnly(token) == token \in IssuedTokens

\* jwt.verify(token, secret): the signature is the server's and exp is ahead
JwtVerify(token) == token \in IssuedTokens /\ token \notin expired

Requests ==
    { r \in [origin : Origins, url : BOOLEAN,
             token : { NoToken, ForgedToken } \cup IssuedTokens] :
        ~r.url => r.token = NoToken }

\* jwt.verify checks the signature, then exp; the error.message it reports
JwtErrorMessage(token) ==
    IF token \notin IssuedTokens THEN "invalid signature" ELSE "jwt expired"

\* the synchronous part of verifyClient: what logger.error gets on the
\* rejection taken, or "" when the request passes on to the store query
SyncReject(r) ==
    IF ~OriginAllowed(r.origin) THEN "origin rejected"
    ELSE IF ~r.url THEN "missing URL"
    ELSE IF r.token = NoToken THEN "Token not found in URL"
    ELSE IF ~secret THEN "JWT Token is not defined"
    ELSE IF ~JwtVerify(r.token)
         THEN "Token verification error " \o JwtErrorMessage(r.token)
    ELSE ""

\* server.close() keeps the sockets it has; it takes no new one
Accepting == listening

\* an upgrade request arrives; verifyClient runs up to pool.query() or to the
\* first done(false).  A request rejected here keeps no socket.
UpgradeRequest(r, limit) ==
    /\ ~exited /\ Accepting
    /\ nextId <= limit
    /\ LET reason == SyncReject(r)
           base == [NoConn EXCEPT !.origin = r.origin, !.token = r.token,
                                  !.afterStop = (closeCalls > 0)]
       IN  IF reason # ""
           THEN /\ rejected' = [origin |-> r.origin, url |-> r.url, token |-> r.token,
                                log |-> reason, doneCalls |-> 1]
                /\ UNCHANGED <<conn, nextId>>
           ELSE /\ conn' = [conn EXCEPT ![nextId] = [base EXCEPT !.phase = "verify"]]
                /\ nextId' = nextId + 1
                /\ rejected' = NoRequest
    /\ broadcasts' = <<>>
    /\ received' = NoFrame
    /\ UNCHANGED <<histVars, authVars, clients, presenceTimers, broken, shutVars>>

\* SELECT * from active_tokens WHERE token = $1, as the store executes it
SelectRows(rows, token) == { r \in rows : r[1] = token }

RowsAsSeq(rs) == IF rs = {} THEN <<>> ELSE <<(CHOOSE r \in rs : TRUE)[2]>>

StoreLookup(c) ==
    /\ ~exited
    /\ conn[c].phase = "verify"
    /\ \E failed \in BOOLEAN :
          conn' = [conn EXCEPT ![c] =
                     [@ EXCEPT !.phase = "queried",
                               !.queryError = failed,
                               !.rows = IF failed THEN <<>>
                                        ELSE RowsAsSeq(SelectRows(active_tokens, conn[c].token)),
                               !.lookupRevoked = (conn[c].token \in revoked)]]
    /\ Quiet
    /\ UNCHANGED <<histVars, authVars, nextId, clients, presenceTimers, broken, shutVars>>

BoundIdentityMissing(rows) == NoUser

\* the identity verifyClient stores on the request for an admitted upgrade
BoundIdentity(rows) == rows[1]

AnnouncementToAll(cn, ws, client) == IsOpen(cn, client)

\* the recipients of the join announcement
AnnouncementTo(cn, ws, client) == client # ws /\ IsOpen(cn, client)

PendingCoalesced(pending, cn, ws) ==
    { c \in pending : cn[c].username # cn[ws].username }

\* what admitting connection ws does to the pending presence timeouts: the
\* handler clears none
PendingAfterConnection(pending, cn, ws) == pending

OnConnectionAnnounceOnly(cl, cn, ws) ==
    << Event("announcement", ws, cl, cn,
             { c \in ConnIds : AnnouncementTo(cn, ws, c) },
             [c \in ConnIds |-> StringifyAnnouncement(cn[ws].username)]) >>

\* wss.on("connection"): bind the identity, start the rate window timer,
\* announce to the others, then broadcast the presence snapshot
OnConnection(cl, cn, ws) ==
    LET announcement == StringifyAnnouncement(cn[ws].username)
    IN  << Event("announcement", ws, cl, cn,
                 { c \in ConnIds : AnnouncementTo(cn, ws, c) },
                 [c \in ConnIds |-> announcement]),
           broadcastUserlist(cl, cn) >>

\* history: connection ws is admitted while the presence timeout of a closed
\* connection of the same identity is pending; its snapshot is the first of
\* that disconnect/reconnect pair
NoteReconnect(cn, pending, ws) ==
    [c \in ConnIds |->
       IF c \in pending /\ cn[c].username = cn[ws].username /\ cn[c].pairSnapshots = 0
       THEN [cn[c] EXCEPT !.pairSnapshots = 1] ELSE cn[c]]

RejectedWithTimer(s, error) ==
    [s EXCEPT !.phase = "rejected", !.doneCalls = @ + 1, !.timer = TRUE,
              !.log = IF error THEN "Token verification error: " ELSE ""]

\* done(false) after the store query: the socket of the request is refused;
\* only the .catch logs
Rejected(s, error) ==
    [s EXCEPT !.phase = "rejected", !.doneCalls = @ + 1,
              !.log = IF error THEN "Token verification error: " ELSE ""]

\* history: every socket keeps the users of the last presence snapshot that
\* was sent to it
NoteSnapshots(cn, events) ==
    [c \in ConnIds |->
       LET got == { i \in 1 .. Len(events) :
                      events[i].kind = "userList" /\ events[i].sent[c] # <<>> }
       IN  IF got = {} THEN cn[c]
           ELSE LET last == CHOOSE i \in got : \A j \in got : j <= i
                IN  [cn[c] EXCEPT !.snapshot = events[last].sent[c][1][4]]]

\* the .then / .catch of the store query: done(false), or done(true) and, in
\* the same turn of the loop, the "connection" event
HandshakeSettle(c) ==
    /\ ~exited
    /\ conn[c].phase = "queried"
    /\ IF conn[c].queryError \/ conn[c].rows = <<>>
       THEN /\ conn' = [conn EXCEPT ![c] = Rejected(conn[c], conn[c].queryError)]
            /\ broadcasts' = <<>>
            /\ UNCHANGED <<clients, presenceTimers>>
       ELSE LET cl == Append(clients, c)
                cn == [conn EXCEPT ![c] =
                         [@ EXCEPT !.phase = "open",
                                   !.doneCalls = @ + 1,
                                   !.username = BoundIdentity(conn[c].rows),
                                   !.drained = ~listening,
                                   !.messageCounter = 0,
                                   !.timer = TRUE]]
            IN  /\ conn' = NoteSnapshots(NoteReconnect(cn, presenceTimers, c),
                                         OnConnection(cl, cn, c))
                /\ clients' = cl
                /\ broadcasts' = OnConnection(cl, cn, c)
                /\ presenceTimers' = PendingAfterConnection(presenceTimers, cn, c)
    /\ rejected' = NoRequest
    /\ received' = NoFrame
    /\ UNCHANGED <<histVars, authVars, nextId, broken, shutVars>>

\* ------------------------------------------------- per-connection handlers
RateExceededAtLimit(counter) == counter >= rateLimit

\* messageCounter > rateLimit
RateExceeded(counter) == counter > rateLimit

ChatToSenderOnly(cn, ws, client) == IsOpen(cn, client) /\ client = ws

\* the recipients of a chat message: client.readyState === ws.OPEN
ChatTo(cn, ws, client) == IsOpen(cn, client)

ChatPayloadAddressed(client, username, message, timestamp) ==
    StringifyChat(username, sanitize(message), timestamp) \o <<"to", client>>

\* the payload client.send() gets for one recipient of a chat message
ChatPayload(client, username, message, timestamp) ==
    StringifyChat(username, sanitize(message), timestamp)

IsChatAny(type) == TRUE

\* messageObject.type === "chat"
IsChat(type) == type = "chat"

\* ws.close(1008, ...): an OPEN socket starts its closing handshake
CloseSocket(s, code) ==
    IF s.phase = "open" THEN [s EXCEPT !.phase = "closing", !.closeCode = code] ELSE s

\* history: "reset" when the window timer last fired on the 20th frame of its
\* window and no frame has come since, "first" when exactly one frame has come
\* since, on a socket that was open
WindowAfterFrame(s) == IF s.window = "reset" /\ s.phase = "open" THEN "first" ELSE ""

WindowAfterTimer(s) == IF s.messageCounter = rateLimit THEN "reset" ELSE ""

SenderNameFromFrame(ws, messageObject) ==
    IF messageObject.username # NoUser THEN messageObject.username ELSE ws.username

\* chatMessage.username: ws.username, whatever messageObject holds
SenderName(ws, messageObject) == ws.username

CountedIfBroadcast(counter, f) ==
    IF f.wf /\ IsChat(f.type) /\ isValidMessage(f.message) THEN counter + 1 ELSE counter

\* messageCounter++, the first statement of the handler for every frame
Counted(counter, f) == counter + 1

ProcessedAnyway(limited) == TRUE

\* the handler returns after ws.close(1008): the rest runs only for a frame
\* within the limit
Processed(limited) == ~limited

\* ws.on("message"): a frame arrives on a socket not yet closed
OnMessage(c, f, cap) ==
    /\ ~exited
    /\ conn[c].phase \in { "open", "closing" }
    /\ conn[c].messageCounter < cap
    /\ LET counted == [conn[c] EXCEPT !.messageCounter = Counted(@, f),
                                      !.window = WindowAfterFrame(conn[c])]
           limited == RateExceeded(counted.messageCounter)
       IN  /\ conn' = [conn EXCEPT ![c] = IF limited
                                          THEN CloseSocket(counted, CloseCodePolicy)
                                          ELSE counted]
           /\ IF Processed(limited) /\ f.wf /\ IsChat(f.type) /\ isValidMessage(f.message)
              THEN \E ts \in Times :
                     broadcasts' =
                       << Event("chat", c, clients, conn',
                                { r \in ConnIds : ChatTo(conn', c, r) },
                                [r \in ConnIds |->
                                   ChatPayload(r, SenderName(conn[c], f),
                                               f.message, ts)]) >>
              ELSE broadcasts' = <<>>
           /\ received' = [conn |-> c, wf |-> f.wf, type |-> f.type,
                           message |-> f.message, phase |-> conn[c].phase,
                           limited |-> limited, parsed |-> Processed(limited),
                           claimed |-> f.username]
    /\ rejected' = NoRequest
    /\ UNCHANGED <<authVars, nextId, clients, presenceTimers, broken, shutVars>>

Frame(c, f, cap) == OnMessage(c, f, cap) /\ UNCHANGED histVars

EnqueueFront(queue, item) == <<item>> \o queue

\* client.send(): the message joins the socket's outgoing data, behind what
\* was sent before
Enqueue(queue, item) == Append(queue, item)

\* ws.on("message"), with the history of the sends kept
FrameLogged(c, f, cap) ==
    /\ OnMessage(c, f, cap)
    /\ IF broadcasts' = <<>>
       THEN UNCHANGED histVars
       ELSE /\ UNCHANGED closeErrors
            /\ chatSeq' = [chatSeq EXCEPT ![c] = @ + 1]
            /\ inbox' = [r \in ConnIds |->
                           IF r \in broadcasts'[1].to
                           THEN Enqueue(inbox[r], <<c, chatSeq[c] + 1>>)
                           ELSE inbox[r]]

TimerKeeps(counter) == counter

\* the value the window timer stores into messageCounter
TimerReset(counter) == 0

\* the setInterval callback of one connection
RateTimer(c) ==
    /\ ~exited
    /\ conn[c].timer
    /\ conn' = [conn EXCEPT ![c] =
                  [@ EXCEPT !.messageCounter = TimerReset(@),
                            !.window = WindowAfterTimer(conn[c])]]
    /\ Quiet
    /\ UNCHANGED <<histVars, authVars, nextId, clients, presenceTimers, broken, shutVars>>

ClearIntervalMissing(timer) == timer

\* clearInterval(rateLimitTimer)
ClearInterval(timer) == FALSE

SetTimeoutNever(pending, c) == pending

\* setTimeout(() => broadcastUserlist(), 100): the timeouts pending afterwards
SetTimeout(pending, c) == pending \cup { c }

\* ws.on("close"): the socket has closed (the client closed it, or the closing
\* handshake the server started has ended); ws has left wss.clients.  No
\* handler of the socket runs again, so the model forgets its counter.
SocketClose(c) ==
    /\ ~exited
    /\ conn[c].phase \in { "open", "closing" }
    /\ conn' = [conn EXCEPT ![c] =
                  [@ EXCEPT !.phase = "closed", !.timer = ClearInterval(@),
                            !.messageCounter = 0, !.window = ""]]
    /\ clients' = RemoveFrom(clients, c)
    /\ presenceTimers' = SetTimeout(presenceTimers, c)
    /\ broken' = broken \ { c }
    /\ Quiet
    /\ UNCHANGED <<histVars, authVars, nextId, shutVars>>

\* the transport of an open socket fails (the peer has vanished); the socket
\* stays OPEN until the failure is detected and its close event fires
TransportBreak(c) ==
    /\ ~exited
    /\ conn[c].phase = "open" /\ c \notin broken
    /\ broken' = broken \cup { c }
    /\ Quiet
    /\ UNCHANGED <<histVars, authVars, nextId, conn, clients, presenceTimers, shutVars>>

\* the setTimeout(..., 100) callback of a close handler: the last callback of
\* the connection, whose socket is then forgotten (pairSnapshots is history:
\* the second snapshot of a disconnect/reconnect pair)
PresenceTimeout(c) ==
    /\ ~exited
    /\ c \in presenceTimers
    /\ presenceTimers' = presenceTimers \ { c }
    /\ broadcasts' = << broadcastUserlist(clients, conn) >>
    /\ rejected' = NoRequest
    /\ received' = NoFrame
    /\ conn' = NoteSnapshots(
                  [conn EXCEPT ![c] =
                     [NoConn EXCEPT !.phase = "gone",
                                    !.pairSnapshots = IF conn[c].pairSnapshots = 0 THEN 0
                                                      ELSE conn[c].pairSnapshots + 1]],
                  << broadcastUserlist(clients, conn) >>)
    /\ UNCHANGED <<histVars, authVars, nextId, clients, broken, shutVars>>

\* ------------------------------------------------------- gracefulShutdown
\* sockets the HTTP server still counts: upgraded ones and handshakes in flight
LiveSockets == { c \in ConnIds : conn[c].phase \in { "verify", "queried", "open", "closing" } }

ServerCloseKeepsListening(wasListening) == wasListening

\* server.close(cb): a listening server stops listening; cb will run when the
\* server has closed, with an error when the server was not listening
ServerCloseListening(wasListening) == FALSE

\* SIGINT / SIGTERM: gracefulShutdown() up to the return of server.close()
Signal ==
    /\ ~exited
    /\ closeCalls < MaxSignals
    /\ closeCalls' = closeCalls + 1
    /\ closeCbs' = Append(closeCbs, ~listening)
    /\ listening' = ServerCloseListening(listening)
    /\ Quiet
    /\ UNCHANGED <<histVars, authVars, connVars, wssCloseCalls, sentryCalls, sentryPending,
                   flushFailures, poolCbs, poolEndCalls, poolReleased, exited, exitCode>>

\* the callback passed to server.close()
OnServerClosed(err, st) ==
    IF err
    THEN [st EXCEPT !.exited = TRUE, !.exitCode = 1, !.closeErrors = @ + 1]
    ELSE [st EXCEPT !.wssCloseCalls = @ + 1, !.sentryCalls = @ + 1,
                    !.sentryPending = @ + 1]

\* the server's "close" event runs the registered callbacks in order, until one
\* of them exits the process
RECURSIVE RunCloseCbs(_, _)
RunCloseCbs(cbs, st) ==
    IF cbs = <<>> \/ st.exited THEN st
    ELSE RunCloseCbs(Tail(cbs), OnServerClosed(Head(cbs), st))

ServerClosed ==
    /\ ~exited
    /\ ~listening /\ closeCbs # <<>>
    /\ LiveSockets = {}
    /\ LET st == RunCloseCbs(closeCbs,
                             [exited |-> FALSE, exitCode |-> exitCode,
                              wssCloseCalls |-> wssCloseCalls,
                              sentryCalls |-> sentryCalls,
                              sentryPending |-> sentryPending,
                              closeErrors |-> closeErrors])
       IN  /\ exited' = st.exited
           /\ exitCode' = st.exitCode
           /\ wssCloseCalls' = st.wssCloseCalls
           /\ sentryCalls' = st.sentryCalls
           /\ sentryPending' = st.sentryPending
           /\ closeErrors' = st.closeErrors
    /\ closeCbs' = <<>>
    /\ Quiet
    /\ UNCHANGED <<chatSeq, inbox, authVars, connVars, listening, closeCalls,
                   flushFailures, poolCbs, poolEndCalls, poolReleased>>

ReleasesPoolAfterFlush(flushed) == flushed

\* both the .then and the .catch of Sentry.close() call pool.end()
ReleasesPool(flushed) == TRUE

\* Sentry.close(2000) settles: .then or .catch calls pool.end(cb)
SentrySettled ==
    /\ ~exited
    /\ sentryPending > 0
    /\ \E flushed \in BOOLEAN :
          /\ flushFailures' = IF flushed THEN flushFailures ELSE flushFailures + 1
          /\ IF ReleasesPool(flushed)
             THEN /\ poolCbs' = Append(poolCbs, IF flushed THEN 0 ELSE 1)
                  /\ poolEndCalls' = poolEndCalls + 1
             ELSE UNCHANGED <<poolCbs, poolEndCalls>>
    /\ sentryPending' = sentryPending - 1
    /\ Quiet
    /\ UNCHANGED <<histVars, authVars, connVars, listening, closeCalls, closeCbs, wssCloseCalls,
                   sentryCalls, poolReleased, exited, exitCode>>

\* the pool.end() callback: the pool has ended, with or without an error the
\* callback does not look at
PoolEnded ==
    /\ ~exited
    /\ poolCbs # <<>>
    /\ \E released \in BOOLEAN :
          poolReleased' = IF released THEN "ok" ELSE "failed"
    /\ exited' = TRUE
    /\ exitCode' = Head(poolCbs)
    /\ poolCbs' = Tail(poolCbs)
    /\ Quiet
    /\ UNCHANGED <<histVars, authVars, connVars, listening, closeCalls, closeCbs, wssCloseCalls,
                   sentryCalls, sentryPending, flushFailures, poolEndCalls>>

\* ------------------------------------------------------------ specifications
Next ==
    \/ \E u \in Users : Login(u)
    \/ \E t \in Tokens : Logout(t)
    \/ \E t \in Tokens : Expire(t)
    \/ \E r \in Requests : UpgradeRequest(r, MaxConns)
    \/ \E c \in ConnIds : StoreLookup(c)
    \/ \E c \in ConnIds : HandshakeSettle(c)
    \/ \E c \in ConnIds, f \in Frames : Frame(c, f, MaxFrames)
    \/ \E c \in ConnIds : RateTimer(c)
    \/ \E c \in ConnIds : TransportBreak(c)
    \/ \E c \in ConnIds : SocketClose(c)
    \/ \E c \in ConnIds : PresenceTimeout(c)
    \/ Signal
    \/ ServerClosed
    \/ SentrySettled
    \/ PoolEnded

Spec == Init /\ [][Next]_vars

\* the rate governor: requests that pass the synchronous checks, one login for
\* each user, and frames up to two past the threshold
GoodRequests == { r \in Requests : SyncReject(r) = "" }

\* user u holds a live session
LoggedIn(u) == \E r \in active_tokens : r[2] = u

\* POST /login by a user who holds no live session
FirstLogin(u) == ~LoggedIn(u) /\ Login(u)

RateCap == rateLimit + 2

NextRate ==
    \/ \E u \in Users : FirstLogin(u)
    \/ \E r \in GoodRequests : UpgradeRequest(r, MaxHandshakes)
    \/ \E c \in ConnIds : StoreLookup(c)
    \/ \E c \in ConnIds : HandshakeSettle(c)
    \/ \E c \in ConnIds, f \in Frames : Frame(c, f, RateCap)
    \/ \E c \in ConnIds : RateTimer(c)
    \/ \E c \in ConnIds : SocketClose(c)
    \/ \E c \in ConnIds : PresenceTimeout(c)

SpecRate == Init /\ [][NextRate]_vars

\* the broadcast engine: one login for each user, no logout, expiry or shutdown
NextChat ==
    \/ \E u \in Users : FirstLogin(u)
    \/ \E r \in GoodRequests : UpgradeRequest(r, MaxConns)
    \/ \E c \in ConnIds : StoreLookup(c)
    \/ \E c \in ConnIds : HandshakeSettle(c)
    \/ \E c \in ConnIds, f \in Frames : Frame(c, f, MaxFrames)
    \/ \E c \in ConnIds : RateTimer(c)
    \/ \E c \in ConnIds : SocketClose(c)
    \/ \E c \in ConnIds : PresenceTimeout(c)

SpecChat == Init /\ [][NextChat]_vars

\* the message bounds: the broadcast engine with chat texts of 0, 1, 250 and
\* 251 characters
NextBounds ==
    \/ \E u \in Users : FirstLogin(u)
    \/ \E r \in GoodRequests : UpgradeRequest(r, MaxConns)
    \/ \E c \in ConnIds : StoreLookup(c)
    \/ \E c \in ConnIds : HandshakeSettle(c)
    \/ \E c \in ConnIds, f \in BoundaryFrames : Frame(c, f, MaxFrames)
    \/ \E c \in ConnIds : RateTimer(c)
    \/ \E c \in ConnIds : SocketClose(c)
    \/ \E c \in ConnIds : PresenceTimeout(c)

SpecBounds == Init /\ [][NextBounds]_vars

\* delivery: the broadcast engine with sockets whose transport fails
NextDelivery ==
    \/ \E u \in Users : FirstLogin(u)
    \/ \E r \in GoodRequests : UpgradeRequest(r, MaxConns)
    \/ \E c \in ConnIds : StoreLookup(c)
    \/ \E c \in ConnIds : HandshakeSettle(c)
    \/ \E c \in ConnIds, f \in Frames : Frame(c, f, MaxFrames)
    \/ \E c \in ConnIds : RateTimer(c)
    \/ \E c \in ConnIds : TransportBreak(c)
    \/ \E c \in ConnIds : SocketClose(c)
    \/ \E c \in ConnIds : PresenceTimeout(c)

SpecDelivery == Init /\ [][NextDelivery]_vars

\* the handshake gate and the live-session store: no frames, closes or shutdown
NextAuth ==
    \/ \E u \in Users : Login(u)
    \/ \E t \in Tokens : Logout(t)
    \/ \E t \in Tokens : Expire(t)
    \/ \E r \in Requests : UpgradeRequest(r, MaxHandshakes)
    \/ \E c \in ConnIds : StoreLookup(c)
    \/ \E c \in ConnIds : HandshakeSettle(c)

SpecAuth == Init /\ [][NextAuth]_vars

\* the shutdown sequence: one login for each user, handshakes, closes and
\* termination signals
NextShutdown ==
    \/ \E u \in Users : FirstLogin(u)
    \/ \E r \in GoodRequests : UpgradeRequest(r, MaxConns)
    \/ \E c \in ConnIds : StoreLookup(c)
    \/ \E c \in ConnIds : HandshakeSettle(c)
    \/ \E c \in ConnIds : SocketClose(c)
    \/ \E c \in ConnIds : PresenceTimeout(c)
    \/ Signal
    \/ ServerClosed
    \/ SentrySettled
    \/ PoolEnded

SpecShutdown == Init /\ [][NextShutdown]_vars

\* the callbacks the server's own event loop owes: a store query settles, a
\* timeout elapses, a closed server emits "close", a flush settles, a pool
\* ends.  A client closes its socket when it chooses to.
ServerFairness ==
    /\ \A c \in ConnIds : WF_vars(StoreLookup(c))
    /\ \A c \in ConnIds : WF_vars(HandshakeSettle(c))
    /\ \A c \in ConnIds : WF_vars(PresenceTimeout(c))
    /\ WF_vars(ServerClosed)
    /\ WF_vars(SentrySettled)
    /\ WF_vars(PoolEnded)

SpecShutdownFair == SpecShutdown /\ ServerFairness

\* the broadcast engine with its timeouts run: a pending setTimeout callback
\* is called
TimerFairness == \A c \in ConnIds : WF_vars(PresenceTimeout(c))

SpecChatFair == SpecChat /\ TimerFairness

\* sender identity: the broadcast engine with chat frames that carry a
\* username property
NextIdentity ==
    \/ \E u \in Users : FirstLogin(u)
    \/ \E r \in GoodRequests : UpgradeRequest(r, MaxConns)
    \/ \E c \in ConnIds : StoreLookup(c)
    \/ \E c \in ConnIds : HandshakeSettle(c)
    \/ \E c \in ConnIds, f \in IdentityFrames : Frame(c, f, MaxFrames)
    \/ \E c \in ConnIds : RateTimer(c)
    \/ \E c \in ConnIds : SocketClose(c)
    \/ \E c \in ConnIds : PresenceTimeout(c)

SpecIdentity == Init /\ [][NextIdentity]_vars

\* the frames that are broadcast
ChatFrames == { f \in Frames : f.wf /\ IsChat(f.type) /\ isValidMessage(f.message) }

\* message order: admissions, closes and chat frames with the sends logged,
\* for the first MaxChats chat messages the server broadcasts (the presence
\* timeouts, which send no chat message, are left out)
MaxChats == MaxFrames + 1

RECURSIVE SumOver(_, _)
SumOver(f, S) ==
    IF S = {} THEN 0
    ELSE LET c == CHOOSE x \in S : TRUE IN f[c] + SumOver(f, S \ { c })

ChatsLogged == SumOver(chatSeq, ConnIds)

NextFifo ==
    \/ \E u \in Users : FirstLogin(u)
    \/ \E r \in GoodRequests : UpgradeRequest(r, MaxConns)
    \/ \E c \in ConnIds : StoreLookup(c)
    \/ \E c \in ConnIds : HandshakeSettle(c)
    \/ \E c \in ConnIds, f \in ChatFrames :
          ChatsLogged < MaxChats /\ FrameLogged(c, f, MaxChats)
    \/ \E c \in ConnIds : SocketClose(c)

SpecFifo == Init /\ [][NextFifo]_vars

\* one client floods at a time, while no handshake is in flight: the other
\* sockets have no frame counted in their window and none of them is closing
OnlySender(c) ==
    \A d \in ConnIds \ { c } :
        /\ conn[d].messageCounter = 0
        /\ conn[d].phase \notin { "verify", "queried", "closing" }

\* the rate governor among several connections: chat frames up to two past
\* the threshold from one client at a time
NextFlood ==
    \/ \E u \in Users : FirstLogin(u)
    \/ \E r \in GoodRequests : UpgradeRequest(r, MaxConns)
    \/ \E c \in ConnIds : StoreLookup(c)
    \/ \E c \in ConnIds : HandshakeSettle(c)
    \/ \E c \in ConnIds, f \in ChatFrames : OnlySender(c) /\ Frame(c, f, RateCap)
    \/ \E c \in ConnIds : RateTimer(c)
    \/ \E c \in ConnIds : SocketClose(c)
    \/ \E c \in ConnIds : PresenceTimeout(c)

SpecFlood == Init /\ [][NextFlood]_vars

\* sessions that end while their sockets live: the broadcast engine with one
\* login for each user, logouts, and chat frames from sockets whose
\* credential has been deleted, one client at a time
RevokedSender(c) == conn[c].token \in revoked /\ OnlySender(c)

\* POST /login by a user who has not logged in before
OnlyLogin(u) == (\A t \in Tokens : tokenOwner[t] # u) /\ Login(u)

NextSession ==
    \/ \E u \in Users : OnlyLogin(u)
    \/ \E t \in Tokens : Logout(t)
    \/ \E r \in GoodRequests : UpgradeRequest(r, MaxConns)
    \/ \E c \in ConnIds : StoreLookup(c)
    \/ \E c \in ConnIds : HandshakeSettle(c)
    \/ \E c \in ConnIds, f \in ChatFrames : RevokedSender(c) /\ Frame(c, f, MaxFrames)
    \/ \E c \in ConnIds : SocketClose(c)
    \/ \E c \in ConnIds : PresenceTimeout(c)

SpecSession == Init /\ [][NextSession]_vars

\* ------------------------------------------------------------------ claims
Admitted(c) == conn[c].phase \in { "open", "closing", "closed" }

PastSyncChecks(c) == conn[c].phase # "idle"

ActiveTokens == { r[1] : r \in active_tokens }

Range(f) == { f[i] : i \in DOMAIN f }

Recipients(e) == { c \in ConnIds : e.sent[c] # <<>> }

EventsSent == { broadcasts[i] : i \in 1 .. Len(broadcasts) }

\* C1: a request whose Origin is absent or outside the allow-list is rejected
\* by the origin check, whatever its credential: it never reaches the token
\* or store checks and is never admitted.
C1_OriginClosure ==
    /\ \A c \in ConnIds : PastSyncChecks(c) => conn[c].origin \in allowedOrigins
    /\ (rejected.doneCalls > 0 /\ rejected.origin \notin allowedOrigins)
          => rejected.log = "origin rejected"

C1_Witness ==
    /\ rejected.origin = "http://evil.example"
    /\ rejected.token \in ActiveTokens /\ JwtVerify(rejected.token)
    /\ rejected.log = "origin rejected"

C4_FanOut ==
    \A e \in EventsSent :
        e.kind = "chat" =>
            /\ \A c \in e.open \ { e.from } : Len(e.sent[c]) = 1
            /\ \A c \in ConnIds : Len(e.sent[c]) <= 1

C4_Witness ==
    \E e \in EventsSent :
        /\ e.kind = "chat"
        /\ e.from \in e.open
        /\ Cardinality(e.open) >= 2
        /\ Recipients(e) = e.open

C6_RateThreshold ==
    [][ \A c \in ConnIds :
          conn'[c].messageCounter = conn[c].messageCounter + 1 =>
             IF conn'[c].messageCounter > rateLimit
             THEN conn'[c].phase = "closing" /\ conn'[c].closeCode = CloseCodePolicy
             ELSE conn'[c].phase = conn[c].phase /\ conn'[c].closeCode = conn[c].closeCode
      ]_vars

C6_Witness ==
    \E c \in ConnIds :
        /\ conn[c].messageCounter = rateLimit + 1
        /\ conn[c].phase = "closing" /\ conn[c].closeCode = CloseCodePolicy

\* C7: when the window timer fires the counter is zero, and the first frame
\* after a reset that followed the 20th frame of a window is accepted: it is
\* frame 1 of the new window and the connection stays open.
C7_WindowReset ==
    \A c \in ConnIds :
        /\ conn[c].window = "reset" => conn[c].messageCounter = 0
        /\ conn[c].window = "first" => conn[c].messageCounter = 1 /\ conn[c].phase = "open"

C7_Witness ==
    \E c \in ConnIds :
        conn[c].window = "first" /\ conn[c].messageCounter = 1 /\ conn[c].phase = "open"

\* the identities of the connections open when event e was broadcast
OpenIdentities(e) == { conn[c].username : c \in e.open }

SnapshotsReflectState ==
    \A e \in EventsSent :
        e.kind = "userList" =>
            \A c \in Recipients(e) : Range(e.sent[c][1][4]) = OpenIdentities(e)

\* C8 as stated: a close of identity X followed by an admission of X within
\* the delay yields at most one presence snapshot for the pair.
C8_AtMostOneSnapshot ==
    \A c \in ConnIds : conn[c].pairSnapshots <= 1

\* C8 as amended: the pair yields two snapshots, one at the admission and one
\* when the delay of the close elapses (the admission leaves the timeout
\* pending), and each lists the identities open when it is computed.
C8_TwoSnapshots ==
    /\ \A c \in ConnIds :
          /\ conn[c].pairSnapshots <= 2
          /\ conn[c].pairSnapshots = 1 => c \in presenceTimers
    /\ SnapshotsReflectState

C8_Witness ==
    \E c \in ConnIds :
        /\ conn[c].pairSnapshots = 2
        /\ \E e \in EventsSent : e.kind = "userList" /\ Recipients(e) # {}

\* C9: whatever the number of termination signals, every shutdown stage runs
\* at most once, and the process exits only after the one pool release.
C9_ShutdownIdempotent ==
    /\ closeCalls <= 1 /\ wssCloseCalls <= 1 /\ sentryCalls <= 1 /\ poolEndCalls <= 1
    /\ exited => poolEndCalls = 1

C11_ExitCodeCritical ==
    exited =>
        /\ exitCode = 0 => poolReleased = "ok"
        /\ poolReleased = "failed" => exitCode # 0

\* the frame the last step handled got past the rate check
Handled == received.conn # 0 /\ ~received.limited

\* the text of the frame the last step handled has 1 to 250 characters
TextInBounds == Len(received.message) >= 1 /\ Len(received.message) <= 250

\* C12: a chat frame whose text has 1 to 250 characters is broadcast, escaped,
\* to every open connection; a chat frame whose text is empty or longer than
\* 250 characters is followed by no broadcast.
C12_MessageBounds ==
    (Handled /\ received.wf /\ received.type = "chat") =>
        IF TextInBounds
        THEN \E e \in EventsSent :
                /\ e.kind = "chat" /\ e.from = received.conn
                /\ Recipients(e) = e.open
                /\ \A c \in e.open : e.sent[c][1][4] = sanitize(received.message)
        ELSE broadcasts = <<>>

C12_Witness ==
    /\ Handled /\ received.type = "chat"
    /\ Len(received.message) = 250
    /\ \E e \in EventsSent : e.kind = "chat" /\ Cardinality(Recipients(e)) >= 2

\* C15: a frame that is not well-formed, or is of another type than chat, or
\* is a chat frame with invalid text, is followed by no send to any
\* connection, and leaves its connection in the state it was in (unless the
\* frame trips the rate limit).
C15_DroppedSilently ==
    (Handled /\ (~received.wf \/ received.type # "chat" \/ ~TextInBounds)) =>
        /\ broadcasts = <<>>
        /\ conn[received.conn].phase = received.phase

C15_Witness ==
    /\ Handled /\ received.wf /\ received.type = "typing"
    /\ received.phase = "open" /\ conn[received.conn].phase = "open"
    /\ Cardinality(OpenSet(clients, conn)) >= 2
    /\ broadcasts = <<>>

\* the connections that are open, and the identities they hold
OpenNow == { c \in ConnIds : conn[c].phase = "open" }

IdentitiesNow == { conn[c].username : c \in OpenNow }

\* C13: the step that admits connection c sends the join announcement naming
\* c's identity to every other open connection and not to c, and after it a
\* presence snapshot to every open connection, c included.
C13_JoinAnnouncement ==
    [][ \A c \in ConnIds :
          (conn[c].phase = "queried" /\ conn'[c].phase = "open") =>
             /\ Len(broadcasts') = 2
             /\ LET announcement == broadcasts'[1]
                    snapshot == broadcasts'[2]
                    open == { d \in ConnIds : conn'[d].phase = "open" }
                IN  /\ announcement.kind = "announcement"
                    /\ Recipients(announcement) = open \ { c }
                    /\ \A d \in open \ { c } :
                          announcement.sent[d] =
                             << StringifyAnnouncement(conn'[c].username) >>
                    /\ snapshot.kind = "userList"
                    /\ c \in open /\ Recipients(snapshot) = open
      ]_vars

C13_Witness ==
    /\ Len(broadcasts) = 2
    /\ broadcasts[1].kind = "announcement"
    /\ Recipients(broadcasts[1]) = OpenNow \ { broadcasts[1].from }
    /\ Recipients(broadcasts[1]) # {}
    /\ Recipients(broadcasts[2]) = OpenNow

\* C14: every presence snapshot sent lists exactly the identities that hold an
\* open connection when it is computed, each identity once; a closed
\* connection adds no identity.
C14_SnapshotExact ==
    \A e \in EventsSent :
        e.kind = "userList" =>
            \A c \in Recipients(e) :
                LET users == e.sent[c][1][4]
                IN  /\ Range(users) = IdentitiesNow
                    /\ Len(users) = Cardinality(IdentitiesNow)

C14_Witness ==
    \E e \in EventsSent :
        /\ e.kind = "userList"
        /\ Cardinality(OpenNow) >= 2 /\ Cardinality(IdentitiesNow) = 1
        /\ \A c \in OpenNow : Len(e.sent[c][1][4]) = 1

\* C16: in every broadcast, a send that fails for one recipient leaves the
\* sends to the other recipients in place and the failing connection open, and
\* the handler runs to its end (the snapshot follows the announcement).
C16_DeliveryIsolation ==
    /\ \A e \in EventsSent :
          /\ \A c \in e.to \ e.failed : Len(e.sent[c]) = 1
          /\ \A c \in e.failed : conn[c].phase = "open"
    /\ \A i \in 1 .. Len(broadcasts) :
          broadcasts[i].kind = "announcement" =>
              /\ Len(broadcasts) = 2
              /\ broadcasts[2].kind = "userList"

C16_Witness ==
    \E e \in EventsSent :
        \E c, d \in e.to :
            /\ c \in e.failed /\ d \notin e.failed
            /\ \E i, j \in 1 .. Len(clients) : i < j /\ clients[i] = c /\ clients[j] = d
            /\ Len(e.sent[d]) = 1

\* the stages start in the order stop accepting, close the broadcast layer,
\* flush telemetry, release the pool
StagesStartInOrder ==
    /\ wssCloseCalls > 0 => (closeCalls > 0 /\ ~listening)
    /\ sentryCalls <= wssCloseCalls
    /\ poolEndCalls <= sentryCalls - sentryPending

\* C17: the stages start in order, the pool release starts only when the
\* telemetry flush has settled, and the process terminates only when the pool
\* release has completed.
C17_StageOrder ==
    /\ StagesStartInOrder
    /\ exited => (poolEndCalls > 0 /\ poolReleased # "no")

C19_ShutdownClosesConnections ==
    \A c \in ConnIds :
        (closeCalls > 0 /\ conn[c].phase = "open") ~> (conn[c].phase # "open")

\* the connections admitted and not yet closed
NotYetClosed == { c \in ConnIds : conn[c].phase \in { "open", "closing" } }

LiveTimers == { c \in ConnIds : conn[c].timer }

\* C20: an admitted connection has its one window timer until it closes, a
\* closed connection has none, whatever closed it; so the live timers are
\* never more than the connections not yet closed.
C20_TimerRelease ==
    /\ LiveTimers = NotYetClosed
    /\ Cardinality(LiveTimers) <= Cardinality(NotYetClosed)

C20_Witness ==
    \E c \in ConnIds :
        /\ conn[c].phase = "closed" /\ conn[c].closeCode = CloseCodePolicy
        /\ ~conn[c].timer

\* C21: the step in which a connection closes sends a leave announcement of
\* its identity to the connections that remain open.
C21_LeaveAnnouncement ==
    [][\A c \in ConnIds :
          ( /\ conn[c].phase \in { "open", "closing" }
            /\ conn'[c].phase = "closed"
            /\ OpenSet(clients', conn') # {} )
          => \E i \in 1 .. Len(broadcasts') :
                /\ broadcasts'[i].kind = "announcement"
                /\ broadcasts'[i].from = c
                /\ broadcasts'[i].to = OpenSet(clients', conn')]_vars

\* C22: a connection that has closed gets its presence snapshot broadcast, to
\* all the connections open at that moment; the snapshot is not sent in the
\* step of the close but by the timeout that step sets.
C22_DelayedSnapshot ==
    /\ \A c \in ConnIds :
          (conn[c].phase = "closed")
             ~> ( /\ conn[c].phase = "gone"
                  /\ Len(broadcasts) = 1
                  /\ broadcasts[1].kind = "userList"
                  /\ Recipients(broadcasts[1]) = OpenSet(clients, conn) )
    /\ [][\A c \in ConnIds :
             (conn[c].phase \in { "open", "closing" } /\ conn'[c].phase = "closed")
             => (broadcasts' = <<>> /\ c \in presenceTimers')]_vars

C22_Witness ==
    \E c \in ConnIds :
        /\ conn[c].phase = "gone"
        /\ Len(broadcasts) = 1
        /\ broadcasts[1].kind = "userList"
        /\ Recipients(broadcasts[1]) = OpenSet(clients, conn)
        /\ OpenSet(clients, conn) # {}

\* C23: a step that rejects a handshake, in the synchronous checks or after
\* the store query, leaves the registry, the pending snapshots, every bound
\* identity, every rate timer and the session store as they were, and
\* broadcasts nothing; the rejected socket has no identity and no timer.
C23_RejectionInert ==
    [][( \/ rejected'.doneCalls > 0
         \/ \E c \in ConnIds : conn[c].phase # "rejected" /\ conn'[c].phase = "rejected" )
       => /\ clients' = clients
          /\ presenceTimers' = presenceTimers
          /\ broadcasts' = <<>>
          /\ \A c \in ConnIds :
                /\ conn'[c].username = conn[c].username
                /\ conn'[c].timer = conn[c].timer
                /\ conn'[c].phase = "rejected"
                      => (conn'[c].username = NoUser /\ ~conn'[c].timer)
          /\ UNCHANGED authVars]_vars

C23_Witness ==
    \E c \in ConnIds :
        /\ conn[c].phase = "rejected" /\ conn[c].rows = <<>> /\ ~conn[c].queryError
        /\ conn[c].username = NoUser /\ ~conn[c].timer
        /\ clients = <<>> /\ broadcasts = <<>>

\* the rejection path of a request in the synchronous checks, "none" when it
\* passes them
RejectionPath(r) ==
    IF r.origin \notin allowedOrigins THEN "bad origin"
    ELSE IF ~r.url \/ r.token = NoToken THEN "missing credential"
    ELSE IF ~secret THEN "missing secret"
    ELSE IF r.token \notin IssuedTokens THEN "invalid signature"
    ELSE IF r.token \in expired THEN "expired"
    ELSE "none"

\* C24: every rejection writes a log entry, and the entries of two different
\* rejection paths differ.
C24_RejectionsLogged ==
    /\ rejected.doneCalls > 0 => rejected.log # ""
    /\ \A c \in ConnIds : conn[c].phase = "rejected" => conn[c].log # ""
    /\ \A r1, r2 \in Requests :
          (SyncReject(r1) # "" /\ SyncReject(r1) = SyncReject(r2))
             => RejectionPath(r1) = RejectionPath(r2)
    /\ \A c \in ConnIds, r \in Requests :
          conn[c].phase = "rejected" => conn[c].log # SyncReject(r)

\* C25: a request passes on to the store query only from an allowed origin,
\* with a token, with the secret configured and with a token whose signature
\* and expiry verify at that moment; it is admitted only when the query has
\* completed without error and found the token's row; a query that failed
\* ends in a rejection.
C25_AdmissionConditions ==
    /\ [](\A c \in ConnIds :
            /\ Admitted(c) =>
                  /\ conn[c].origin \in allowedOrigins
                  /\ conn[c].token # NoToken
                  /\ secret
                  /\ conn[c].token \in IssuedTokens
                  /\ ~conn[c].queryError
                  /\ conn[c].rows = <<tokenOwner[conn[c].token]>>
            /\ (conn[c].queryError /\ conn[c].phase # "queried")
                  => conn[c].phase = "rejected")
    /\ [][\A c \in ConnIds :
             (conn[c].phase = "idle" /\ conn'[c].phase # "idle")
             => /\ conn'[c].phase = "verify"
                /\ conn'[c].token \in IssuedTokens
                /\ conn'[c].token \notin expired]_vars

C25_Witness ==
    \E c \in ConnIds :
        /\ conn[c].phase = "open"
        /\ conn[c].origin \in allowedOrigins
        /\ conn[c].token \in IssuedTokens
        /\ conn[c].rows # <<>> /\ ~conn[c].queryError
        /\ conn[c].username = conn[c].rows[1]

\* the numbers of the chat messages of sender a in the inbox of r, in the
\* order they were sent to r
RECURSIVE FromSender(_, _)
FromSender(queue, a) ==
    IF queue = <<>> THEN <<>>
    ELSE IF Head(queue)[1] = a THEN <<Head(queue)[2]>> \o FromSender(Tail(queue), a)
    ELSE FromSender(Tail(queue), a)

\* C26: every socket is sent the chat messages of one sender in the order the
\* sender's frames arrived, and none between two it was sent is missing.
C26_PerSenderFifo ==
    \A r, a \in ConnIds :
        LET q == FromSender(inbox[r], a)
        IN  \A i \in 1 .. Len(q) - 1 : q[i + 1] = q[i] + 1

C26_Witness ==
    \E r, a \in ConnIds :
        /\ r # a
        /\ FromSender(inbox[r], a) = <<1, 2>>

\* C27: a frame that takes the counter past the threshold is not parsed and
\* nothing is broadcast for it, whatever the frame holds.
C27_LimitedFrameDropped ==
    (received.conn # 0 /\ received.limited)
        => (~received.parsed /\ broadcasts = <<>>)

C27_Witness ==
    /\ received.conn # 0 /\ received.limited
    /\ received.wf /\ received.type = "chat" /\ isValidMessage(received.message)
    /\ received.phase = "open"
    /\ conn[received.conn].messageCounter = rateLimit + 1
    /\ broadcasts = <<>>

\* C28: when the accept-layer close and the pool release have both succeeded,
\* the process exits with code 0, whether or not the telemetry flush failed.
C28_FlushFailureExitsZero ==
    (exited /\ closeErrors = 0 /\ poolReleased = "ok") => exitCode = 0

\* C29: when the accept-layer close has failed, the broadcast layer has been
\* closed and the pool released by the time the process terminates.
C29_StagesAfterCloseError ==
    (exited /\ closeErrors > 0)
        => (wssCloseCalls > 0 /\ poolEndCalls > 0 /\ poolReleased # "no")

\* the connection a broadcast leaves out: the one that joined, for an
\* announcement
Excluded(e) == IF e.kind = "announcement" THEN { e.from } ELSE {}

\* C30: every broadcast of a step is sent to exactly the connections that are
\* open in the state the step ends in, less the one it leaves out; every
\* connection is either sent it or not open.
C30_BroadcastAtomic ==
    \A e \in EventsSent :
        /\ e.open = OpenSet(clients, conn)
        /\ e.to = OpenSet(clients, conn) \ Excluded(e)
        /\ \A c \in ConnIds : e.sent[c] # <<>> <=> c \in e.to

C30_Witness ==
    \E e \in EventsSent :
        /\ e.to = OpenSet(clients, conn) \ Excluded(e)
        /\ e.to # {}
        /\ \E c \in ConnIds : conn[c].phase \in { "verify", "queried", "closed" }

\* C31: once a termination signal has been received, the process terminates,
\* whether or not connections were open when the signal came.
C31_ShutdownTerminates == (closeCalls > 0) ~> exited

\* C32: the username of every chat message sent is the identity bound to the
\* sending connection at its handshake, whatever username the frame carries;
\* the bound identity of an admitted connection never changes.
C32_SenderIdentity ==
    /\ [](\A e \in EventsSent :
            e.kind = "chat" =>
               \A r \in ConnIds :
                  e.sent[r] # <<>> =>
                     /\ e.sent[r][1][2] = conn[e.from].username
                     /\ e.sent[r][1][2] = conn[e.from].rows[1])
    /\ [][\A c \in ConnIds :
             (Admitted(c) /\ conn'[c].phase \in { "open", "closing", "closed" })
             => conn'[c].username = conn[c].username]_vars

C32_Witness ==
    /\ received.conn # 0
    /\ received.claimed # NoUser
    /\ received.claimed # conn[received.conn].username
    /\ \E e \in EventsSent :
          /\ e.kind = "chat" /\ e.from = received.conn
          /\ \E r \in ConnIds :
                /\ r # e.from /\ e.sent[r] # <<>>
                /\ e.sent[r][1][2] = conn[e.from].username

\* C33: a frame that arrives on a socket the server is closing for a rate
\* violation is sent to no connection, also when the window timer has reset
\* the counter in between.
C33_NoBroadcastWhileClosing ==
    (received.conn # 0 /\ received.phase = "closing")
        => \A e \in EventsSent : Recipients(e) = {}

\* C34: every frame the handler gets adds one to the counter of its
\* connection, whatever the frame holds, and a frame gets past the rate check
\* only as one of the first rateLimit frames counted in its window.
C34_EveryFrameCounts ==
    /\ [](Handled => conn[received.conn].messageCounter \in 1 .. rateLimit)
    /\ [][\A c \in ConnIds :
             received'.conn = c
             => conn'[c].messageCounter = conn[c].messageCounter + 1]_vars

C34_Witness ==
    /\ Handled
    /\ ~received.wf
    /\ conn[received.conn].messageCounter = rateLimit

\* no admission or close is under way: no handshake in flight, no socket
\* closing or failing, no presence timeout pending
Quiescent ==
    /\ presenceTimers = {}
    /\ broken = {}
    /\ \A c \in ConnIds : conn[c].phase \notin { "verify", "queried", "closing" }

\* C35: when no admission or close is under way, the last presence snapshot
\* sent to every open connection lists exactly the identities that hold an
\* open connection.
C35_PresenceConsistent ==
    Quiescent => \A c \in OpenNow : Range(conn[c].snapshot) = IdentitiesNow

C35_Witness ==
    /\ Quiescent
    /\ \E c \in ConnIds : conn[c].phase = "gone"
    /\ \E d \in OpenNow :
          /\ conn[d].snapshot # <<>>
          /\ Range(conn[d].snapshot) = IdentitiesNow

\* the open connections whose credential has been deleted by /logout
OpenRevoked == { c \in OpenNow : conn[c].token \in revoked }

\* C36: a logout changes no connection and sends nothing; a connection whose
\* credential has been deleted stays listed in every presence snapshot while
\* it is open, and its valid chat frames are sent to every open connection.
C36_LogoutKeepsConnections ==
    /\ [](/\ \A e \in EventsSent :
               e.kind = "userList" =>
                  \A r \in Recipients(e) :
                     { conn[c].username : c \in OpenRevoked }
                        \subseteq Range(e.sent[r][1][4])
          /\ ( /\ Handled /\ received.conn \in OpenRevoked
               /\ received.wf /\ received.type = "chat"
               /\ isValidMessage(received.message) )
             => \E e \in EventsSent :
                   /\ e.kind = "chat" /\ e.from = received.conn
                   /\ Recipients(e) = OpenNow)
    /\ [][revoked' # revoked
            => (conn' = conn /\ clients' = clients /\ broadcasts' = <<>>)]_vars

C36_Witness ==
    /\ received.conn \in OpenRevoked
    /\ \E e \in EventsSent :
          /\ e.kind = "chat" /\ e.from = received.conn
          /\ \E d \in Recipients(e) : d # received.conn

====
